---- MODULE Spec2Model ----
(***************************************************************************)
(* Model of gifts-roulette, src/src/roulette.rs: the Roulette struct, its  *)
(* constructor, the private steps shuffle / participants_to_couples / save *)
(* and the public operations run, get_couples and send_emails.             *)
(*                                                                         *)
(* The random sources (thread_rng), the file system, the bcrypt primitive  *)
(* and the mail transport are the environment: each of their outcomes is a *)
(* nondeterministic input of the action that uses them.                    *)
(***************************************************************************)
EXTENDS Integers, Sequences, FiniteSets, TLC

\* ------------------------------------------------------------------ bounds
\* Largest participant list handed to Roulette::new.
MaxLen == 3
\* Largest number of rows the model lets self.couples grow to (the code
\* itself never caps it).
MaxCouples == 4

\* ------------------------------------------------------- program constants
\* bcrypt::DEFAULT_COST, the work factor passed to hash(); its value is the
\* bcrypt crate's.
DEFAULT_COST == "bcrypt::DEFAULT_COST"
\* Subject line of every mail.
Subject == "Gift Exchange"
\* Value of MailerClient::get_user(), the configured sender identity.
ClientUser == <<"email", 0>>

\* ------------------------------------------------------------ data model
\* struct Participant { name, email, info }; the i-th record of the caller's
\* list.  Names are distinct, as the registry uses them as identifiers.
Participant(i) ==
  [name |-> <<"name", i>>, email |-> <<"email", i>>, info |-> <<"info", i>>]

\* Store paths handed to Roulette::new.
Paths == {"dir/db.json", "dir/db.txt", "dir/db"}

\* Path::extension(): None when the file name has no dot.
extension(path) ==
  CASE path = "dir/db.json" -> "json"
    [] path = "dir/db.txt"  -> "txt"
    [] OTHER                -> "None"

\* Couples::new(): no rows.
CouplesNew == << >>

\* A file that does not exist at the store path.
NoFile == [exists |-> FALSE, rows |-> << >>]

\* SliceRandom::shuffle with thread_rng: the generator picks a permutation p
\* of the positions, and the slice is rearranged by it.
Orders(n) == Permutations(1..n)
permute(s, p) == [i \in 1..Len(s) |-> s[p[i]]]

\* Results: "Ok", "Panic" (the call unwound), or the message of the error
\* the call returned.
IsErr(r) == r \notin {"Ok", "Panic", "none"}

VARIABLES
  built,            \* a Roulette has been constructed
  participants,     \* Roulette.participants
  random,           \* Roulette.random
  store_file_path,  \* Roulette.store_file_path
  saved,            \* Roulette.saved
  couples,          \* Roulette.couples.couples
  file,             \* the file at store_file_path
  sent,             \* mails the transport accepted, when send_emails ran last
  returned,         \* rows returned, when get_couples ran last
  op,               \* the operation that ran last
  result            \* what it returned

vars == <<built, participants, random, store_file_path, saved, couples,
          file, sent, returned, op, result>>

\* The fields of self, as a record the methods below transform.
Self ==
  [participants |-> participants, random |-> random, saved |-> saved,
   couples |-> couples]

\* --------------------------------------------------------------- Roulette
\* Roulette::new: fails only when the path has no extension; the comparison
\* with "json" builds an error value and drops it.
new(path) ==
  IF extension(path) = "None" THEN "Error reading extension" ELSE "Ok"

\* shuffle without its guard on random.
shuffle_unguarded(self, p) ==
  [self EXCEPT !.participants = permute(self.participants, p),
               !.random = TRUE]

\* Roulette::shuffle, the generator picking p.
shuffle(self, p) ==
  IF self.random
    THEN self
    ELSE [self EXCEPT !.participants = permute(self.participants, p),
                      !.random = TRUE]

\* derive with the closing row written first-to-last.
derive_closing_reversed(ps) ==
  [i \in 1..Len(ps) |->
     IF i < Len(ps) THEN <<ps[i].name, ps[i + 1].name>>
                    ELSE <<ps[1].name, ps[Len(ps)].name>>]

\* Rows pushed by participants_to_couples for a non-empty list: each
\* participant with its successor, then the last with the first.
derive(ps) ==
  [i \in 1..Len(ps) |->
     IF i < Len(ps) THEN <<ps[i].name, ps[i + 1].name>>
                    ELSE <<ps[Len(ps)].name, ps[1].name>>]

\* participants_to_couples without its guard on random.
participants_to_couples_unguarded(self) ==
  IF Len(self.participants) = 0
    THEN [result |-> "Panic", couples |-> self.couples]
    ELSE [result |-> "Ok", couples |-> self.couples \o derive(self.participants)]

\* Roulette::participants_to_couples: result and couples after the call.
\* With no participant, len() - 1 underflows: the subtraction panics, or
\* wraps and the first index panics.
participants_to_couples(self) ==
  IF ~self.random
    THEN [result |-> "Participants not shuffled", couples |-> self.couples]
  ELSE IF Len(self.participants) = 0
    THEN [result |-> "Panic", couples |-> self.couples]
  ELSE [result |-> "Ok", couples |-> self.couples \o derive(self.participants)]

\* bcrypt::hash(password, cost): a salted one-way digest, never the password.
hash(password, cost) == <<"$2b$", cost, password>>

\* get_couples pushing the recipient itself instead of its hash.
get_couples_unhashed(cs) ==
  [i \in 1..Len(cs) |-> <<cs[i][1], cs[i][2]>>]

\* Roulette::get_couples: the rows with every recipient hashed.
get_couples(cs) ==
  [i \in 1..Len(cs) |-> <<cs[i][1], hash(cs[i][2], DEFAULT_COST)>>]

\* rand shuffling the recipient column instead of the rows.
rand_columns(cs, p) ==
  [i \in 1..Len(cs) |-> <<cs[i][1], cs[p[i]][2]>>]

\* Couples::rand, the generator picking p.
rand(cs, p) == permute(cs, p)

\* Where the environment lets save fail.  "flush" is the write BufWriter
\* performs when it is dropped, whose error is discarded.
SaveFaults == {"none", "create", "hash", "serialize", "write", "flush"}

\* The steps of save past its guard.  p is the order Couples::rand picks,
\* fault the step the environment fails, k the number of rows that reached
\* the file when the write or the flush failed.  Yields self, the file and
\* the result after the call.
save_steps(self, f, p, fault, k) ==
  LET d == participants_to_couples(self)
      s1 == [self EXCEPT !.couples = d.couples]
  IN IF d.result # "Ok"
       THEN [self |-> s1, file |-> f, result |-> d.result]
       ELSE
         LET s2 == [s1 EXCEPT !.couples = rand(d.couples, p)]
             data == get_couples(s2.couples)
             created == [exists |-> TRUE, rows |-> << >>]
             partial == [exists |-> TRUE, rows |-> SubSeq(data, 1, k)]
             whole == [exists |-> TRUE, rows |-> data]
         IN CASE fault = "create" ->
                   [self |-> s2, file |-> f, result |-> "Error opening file"]
              [] fault = "hash" ->
                   [self |-> s2, file |-> created, result |-> "Error creating hash"]
              [] fault = "serialize" ->
                   [self |-> s2, file |-> created, result |-> "Error serialize data"]
              [] fault = "write" ->
                   [self |-> s2, file |-> partial,
                    result |-> "Error writing data in file"]
              [] fault = "flush" ->
                   [self |-> [s2 EXCEPT !.saved = TRUE], file |-> partial,
                    result |-> "Ok"]
              [] OTHER ->
                   [self |-> [s2 EXCEPT !.saved = TRUE], file |-> whole,
                    result |-> "Ok"]

\* save without its guard on saved.
save_unguarded(self, f, p, fault, k) == save_steps(self, f, p, fault, k)

\* save setting the saved flag whatever its steps returned.
save_flag_first(self, f, p, fault, k) ==
  IF self.saved THEN [self |-> self, file |-> f, result |-> "Ok"]
  ELSE LET o == save_steps(self, f, p, fault, k)
       IN [o EXCEPT !.self.saved = TRUE]

\* Roulette::save: nothing to do once saved.
save(self, f, p, fault, k) ==
  IF self.saved THEN [self |-> self, file |-> f, result |-> "Ok"]
                ELSE save_steps(self, f, p, fault, k)

\* Roulette::run: shuffle, then save.
run(self, f, p1, p2, fault, k) == save(shuffle(self, p1), f, p2, fault, k)

\* The draws shuffle can be given.  A call that finds random set does not
\* consult the generator: two draws, the identity and the reversal, then
\* stand for all of them.
Identity == [i \in 1..(MaxCouples + MaxLen) |-> i]
ShuffleInputs(self) ==
  LET n == Len(self.participants)
  IN IF self.random THEN {[i \in 1..n |-> i], [i \in 1..n |-> n + 1 - i]}
                    ELSE Orders(n)

\* The environment inputs one call of save consults, as <<p, fault, k>>:
\* none when it returns before Couples::rand (p is then the identity);
\* otherwise an order of the derived rows, a fault, and for a failed write
\* or flush the number of rows already in the file.
SaveInputs(self) ==
  LET d == participants_to_couples(self)
      n == Len(d.couples)
  IN IF self.saved \/ d.result # "Ok"
       THEN {<<Identity, "none", 0>>}
       ELSE { <<p, x[1], x[2]>> :
                p \in Orders(n),
                x \in ((SaveFaults \ {"write", "flush"}) \X {0})
                        \cup ({"write", "flush"} \X (0..(n - 1))) }

\* What get_couples returns when the environment lets hashing fail
\* (fault = "hash", possible only when there is a row to hash) or not.
get_couples_call(cs, fault) ==
  IF fault = "hash" /\ Len(cs) > 0
    THEN [result |-> "Error creating hash", value |-> CouplesNew]
    ELSE [result |-> "Ok", value |-> get_couples(cs)]

\* get_participant comparing the email with the name looked up.
get_participant_by_email(ps, name) ==
  LET hits == { i \in 1..Len(ps) : ps[i].email = name }
  IN IF hits = {} THEN << >>
     ELSE << ps[CHOOSE i \in hits : \A j \in hits : i <= j] >>

\* Roulette::get_participant: the first participant of that name, as an
\* Option (<< >> is None).
get_participant(ps, name) ==
  LET hits == { i \in 1..Len(ps) : ps[i].name = name }
  IN IF hits = {} THEN << >>
     ELSE << ps[CHOOSE i \in hits : \A j \in hits : i <= j] >>

\* Roulette::create_email: the mail built from the record data.
create_email(user, data) ==
  [to |-> data.email, from |-> user, subject |-> Subject,
   body |-> <<"Your gift is for: ", data.name, "Context:", data.info>>]

\* Where the environment lets send_emails fail: creating the client, or
\* building or sending the mail of row k.
SendFaults == {"none", "client", "build", "send"}

\* The loop of send_emails going on to the next row after a mail that
\* could not be built or sent, instead of returning.
RECURSIVE send_loop_skip(_, _, _, _, _)
send_loop_skip(self, i, outbox, fault, k) ==
  IF i > Len(self.couples) THEN [sent |-> outbox, result |-> "Ok"]
  ELSE
    LET benefited == get_participant(self.participants, self.couples[i][2])
    IN IF benefited = << >>
         THEN [sent |-> outbox, result |-> "Participant is not in list"]
       ELSE IF fault \in {"build", "send"} /\ k = i
         THEN send_loop_skip(self, i + 1, outbox, fault, k)
       ELSE send_loop_skip(self, i + 1,
                           Append(outbox, create_email(ClientUser, benefited[1])),
                           fault, k)

\* The loop of send_emails from row i on; outbox holds the mails the
\* transport has accepted so far.
RECURSIVE send_loop(_, _, _, _, _)
send_loop(self, i, outbox, fault, k) ==
  IF i > Len(self.couples) THEN [sent |-> outbox, result |-> "Ok"]
  ELSE
    LET benefited == get_participant(self.participants, self.couples[i][2])
    IN IF benefited = << >>
         THEN [sent |-> outbox, result |-> "Participant is not in list"]
       ELSE IF fault = "build" /\ k = i
         THEN [sent |-> outbox, result |-> "Error building email"]
       ELSE IF fault = "send" /\ k = i
         THEN [sent |-> outbox, result |-> "Error sending email"]
       ELSE send_loop(self, i + 1,
                      Append(outbox, create_email(ClientUser, benefited[1])),
                      fault, k)

\* Roulette::send_emails: the mails accepted and the result.
send_emails(self, fault, k) ==
  IF fault = "client"
    THEN [sent |-> << >>, result |-> "Error creating Mailer Client"]
    ELSE send_loop(self, 1, << >>, fault, k)

\* --------------------------------------------------------------- actions
Init ==
  /\ built = FALSE
  /\ participants = << >>
  /\ random = FALSE
  /\ store_file_path = "none"
  /\ saved = FALSE
  /\ couples = CouplesNew
  /\ file = NoFile
  /\ sent = << >>
  /\ returned = << >>
  /\ op = "none"
  /\ result = "none"

\* The process is alive and holds a Roulette.
Live == built /\ result # "Panic"

\* The model stops deriving rows beyond MaxCouples.
WithinBound(self) ==
  self.saved \/ ~self.random
    \/ Len(self.couples) + Len(self.participants) <= MaxCouples

New ==
  /\ ~built
  /\ \E n \in 0..MaxLen, path \in Paths :
       /\ op' = "new"
       /\ result' = new(path)
       /\ IF new(path) = "Ok"
            THEN /\ built' = TRUE
                 /\ participants' = [i \in 1..n |-> Participant(i)]
                 /\ store_file_path' = path
            ELSE UNCHANGED <<built, participants, store_file_path>>
       /\ random' = FALSE
       /\ saved' = FALSE
       /\ couples' = CouplesNew
       /\ sent' = << >>
       /\ returned' = << >>
       /\ UNCHANGED file

Run ==
  /\ Live
  /\ WithinBound([Self EXCEPT !.random = TRUE])
  /\ \E p1 \in ShuffleInputs(Self) :
     \E in \in SaveInputs(shuffle(Self, p1)) :
       LET o == run(Self, file, p1, in[1], in[2], in[3])
       IN /\ participants' = o.self.participants
          /\ random' = o.self.random
          /\ saved' = o.self.saved
          /\ couples' = o.self.couples
          /\ file' = o.file
          /\ result' = o.result
          /\ op' = "run"
          /\ sent' = << >>
          /\ returned' = << >>
          /\ UNCHANGED <<built, store_file_path>>

GetCouples ==
  /\ Live
  /\ \E fault \in {"none", "hash"} :
       LET o == get_couples_call(couples, fault)
       IN /\ returned' = o.value
          /\ result' = o.result
          /\ op' = "get_couples"
          /\ sent' = << >>
          /\ UNCHANGED <<built, participants, random, store_file_path, saved,
                         couples, file>>

\* send_emails taking the rows it has notified out of self.couples.
SendEmails_consuming ==
  /\ Live
  /\ \E fault \in SendFaults, k \in 1..Len(couples) :
       LET o == send_emails(Self, fault, k)
       IN /\ sent' = o.sent
          /\ result' = o.result
          /\ op' = "send_emails"
          /\ returned' = << >>
          /\ couples' = SubSeq(couples, Len(o.sent) + 1, Len(couples))
          /\ UNCHANGED <<built, participants, random, store_file_path, saved,
                         file>>

SendEmails ==
  /\ Live
  /\ \E fault \in SendFaults, k \in 1..Len(couples) :
       LET o == send_emails(Self, fault, k)
       IN /\ sent' = o.sent
          /\ result' = o.result
          /\ op' = "send_emails"
          /\ returned' = << >>
          /\ UNCHANGED <<built, participants, random, store_file_path, saved,
                         couples, file>>

\* The private steps, called on their own (as code inside the module can).
Shuffle ==
  /\ Live
  /\ \E p \in ShuffleInputs(Self) :
       LET s == shuffle(Self, p)
       IN /\ participants' = s.participants
          /\ random' = s.random
          /\ result' = "Ok"
          /\ op' = "shuffle"
          /\ sent' = << >>
          /\ returned' = << >>
          /\ UNCHANGED <<built, store_file_path, saved, couples, file>>

ParticipantsToCouples ==
  /\ Live
  /\ WithinBound([Self EXCEPT !.saved = FALSE])
  /\ LET d == participants_to_couples(Self)
     IN /\ couples' = d.couples
        /\ result' = d.result
        /\ op' = "participants_to_couples"
        /\ sent' = << >>
        /\ returned' = << >>
        /\ UNCHANGED <<built, participants, random, store_file_path, saved,
                       file>>

Save ==
  /\ Live
  /\ WithinBound(Self)
  /\ \E in \in SaveInputs(Self) :
       LET o == save(Self, file, in[1], in[2], in[3])
       IN /\ saved' = o.self.saved
          /\ couples' = o.self.couples
          /\ file' = o.file
          /\ result' = o.result
          /\ op' = "save"
          /\ sent' = << >>
          /\ returned' = << >>
          /\ UNCHANGED <<built, participants, random, store_file_path>>

\* The public interface: new, run, get_couples, send_emails.
Next == New \/ Run \/ GetCouples \/ SendEmails

Spec == Init /\ [][Next]_vars

\* The steps of the pairing workflow, each callable on its own: new, run
\* and the private steps run is made of.
NextMethods == New \/ Run \/ Shuffle \/ ParticipantsToCouples \/ Save

SpecMethods == Init /\ [][NextMethods]_vars

\* ------------------------------------------------------------ vocabulary
NamesOf(ps) == { ps[i].name : i \in 1..Len(ps) }
Givers(cs) == { cs[i][1] : i \in 1..Len(cs) }
Recipients(cs) == { cs[i][2] : i \in 1..Len(cs) }

\* The recipient the rows cs assign to giver x.
RecipientOf(cs, x) == cs[CHOOSE i \in 1..Len(cs) : cs[i][1] = x][2]

\* The participant reached from x by following giver -> recipient k times.
RECURSIVE Walk(_, _, _)
Walk(cs, x, k) == IF k = 0 THEN x ELSE Walk(cs, RecipientOf(cs, x), k - 1)

\* Every participant is giver of exactly one row and recipient of exactly
\* one row, and there are as many rows as participants.
Bijection(ps, cs) ==
  /\ Len(cs) = Len(ps)
  /\ Givers(cs) = NamesOf(ps)
  /\ Recipients(cs) = NamesOf(ps)

\* The rows form one cycle through all participants, without self-pair.
OneCycle(ps, cs) ==
  /\ Bijection(ps, cs)
  /\ \A i \in 1..Len(cs) : cs[i][1] # cs[i][2]
  /\ \A x \in NamesOf(ps) :
       /\ { Walk(cs, x, k) : k \in 0..(Len(ps) - 1) } = NamesOf(ps)
       /\ Walk(cs, x, Len(ps)) = x

\* The record of the participant called name.
Record(name) == get_participant(participants, name)[1]

\* ------------------------------------------------------------------ C1
\* C1: for a list of n >= 2 distinct names, the first pair derivation on a
\* fresh Roulette (no pairs yet) leaves exactly n pairs that form one cycle
\* of length n: givers and recipients are both the whole name set and no
\* pair has giver = recipient.
C1_DerivedPairsFormOneCycle ==
  [][(couples = << >> /\ couples' # << >> /\ Len(participants') >= 2)
       => OneCycle(participants', couples')]_vars

C1_Witness ==
  /\ op \in {"run", "participants_to_couples"}
  /\ result = "Ok"
  /\ Len(participants) >= 3
  /\ Len(couples) = Len(participants)

\* ------------------------------------------------------------------ C2
\* C2: after a successful run, a send_emails that the transport lets
\* through builds one mail per pair, addressed to the giver of the pair and
\* naming the recipient and the recipient's note.
C2_MailGoesToGiver ==
  (saved /\ op = "send_emails" /\ result = "Ok") =>
    /\ Len(sent) = Len(couples)
    /\ \A i \in 1..Len(sent) :
         /\ sent[i].to = Record(couples[i][1]).email
         /\ sent[i].body[2] = couples[i][2]
         /\ sent[i].body[4] = Record(couples[i][2]).info

\* ------------------------------------------------------------------ C3
\* C3: after a successful run on n >= 2 participants the file holds exactly
\* n rows, row i being the giver of pair i (every name once) with the hash
\* of that pair's recipient, and no recipient in plaintext.
C3_FileHoldsConcealedPairs ==
  (saved /\ Len(participants) >= 2) =>
    /\ file.exists
    /\ Len(file.rows) = Len(participants)
    /\ Len(couples) = Len(participants)
    /\ \A i \in 1..Len(file.rows) :
         /\ file.rows[i][1] = couples[i][1]
         /\ file.rows[i][2] = hash(couples[i][2], DEFAULT_COST)
         /\ file.rows[i][2] \notin NamesOf(participants)
    /\ { file.rows[i][1] : i \in 1..Len(file.rows) } = NamesOf(participants)

\* ------------------------------------------------------------------ C4
\* C4: with no participant or a single one, run returns an error and
\* leaves no pair, persisted false and no file.
C4_SmallListsRejected ==
  (op = "run" /\ Len(participants) <= 1) =>
    /\ IsErr(result)
    /\ couples = << >>
    /\ ~saved
    /\ ~file.exists

\* ------------------------------------------------------------------ C5
\* C5: new constructs a Roulette only for a path whose extension is json,
\* so a file can only ever appear at a .json path.
C5_OnlyJsonConstructs ==
  /\ built => extension(store_file_path) = "json"
  /\ (op = "new" /\ ~built) => IsErr(result)

\* ------------------------------------------------------------------ C6
\* C6: in every state reached by run and send_emails calls the pairs are
\* either none or one pair per participant, each participant once as giver
\* and once as recipient.
C6_PairsEmptyOrBijection ==
  couples = << >> \/ Bijection(participants, couples)

\* ------------------------------------------------------------------ C7
\* C7: once persisted is set, every further run or save returns success and
\* changes neither the participant order, the pairs, the flags nor the file.
C7_SavedRunIsNoOp ==
  [][(saved /\ op' \in {"run", "save"}) =>
       /\ result' = "Ok"
       /\ participants' = participants
       /\ couples' = couples
       /\ random' = random
       /\ saved' = saved
       /\ file' = file]_vars

C7_Witness ==
  /\ saved
  /\ op \in {"run", "save"}
  /\ result = "Ok"
  /\ file.exists
  /\ Len(couples) >= 2

\* ------------------------------------------------------------------ C8
\* C8: once randomized is set the participant order never changes again,
\* and a shuffle called then returns success and changes nothing.
C8_ShuffleOnce ==
  [][random =>
       /\ participants' = participants
       /\ op' = "shuffle" =>
            /\ result' = "Ok"
            /\ UNCHANGED <<built, random, store_file_path, saved, couples,
                           file>>]_vars

C8_Witness ==
  /\ op = "shuffle"
  /\ random
  /\ couples # << >>
  /\ Len(participants) >= 2

\* ------------------------------------------------------------------ C9
\* C9: pair derivation called while randomized is false returns the
\* "not shuffled" error, leaves the pairs empty and changes nothing else,
\* whatever the participant list (the empty one included).
C9_DeriveBeforeShuffleFails ==
  [][(built /\ ~random /\ op' = "participants_to_couples") =>
       /\ result' = "Participants not shuffled"
       /\ couples = << >>
       /\ couples' = << >>
       /\ UNCHANGED <<built, participants, random, store_file_path, saved,
                      file>>]_vars

C9_Witness ==
  /\ op = "participants_to_couples"
  /\ ~random
  /\ result = "Participants not shuffled"
  /\ Len(participants) = 0

\* ------------------------------------------------------------------ C10
\* C10: a file exists at the store path only in states where save has
\* returned success: a failed save leaves no file and persisted false.
C10_NoFileUnlessSaved ==
  /\ file.exists => saved
  /\ (op \in {"run", "save"} /\ IsErr(result)) => ~saved

\* ------------------------------------------------------------------ C11
\* C11: save returns success and sets persisted only when the whole
\* serialized assignment has reached the file.
C11_SuccessMeansFlushed ==
  saved => (file.exists /\ file.rows = get_couples(couples))

\* ------------------------------------------------------------------ C12
\* C12: the mails a send_emails call got accepted are those of a prefix of
\* the pair sequence, one each and in order; all of them when it returns
\* success, and a proper prefix when building or sending a mail failed.
C12_SentIsPrefixOfPairs ==
  (op = "send_emails") =>
    /\ Len(sent) <= Len(couples)
    /\ \A i \in 1..Len(sent) : sent[i].body[2] = couples[i][2]
    /\ result = "Ok" => Len(sent) = Len(couples)
    /\ result \in {"Error building email", "Error sending email"}
         => Len(sent) < Len(couples)

C12_Witness ==
  /\ op = "send_emails"
  /\ result = "Error sending email"
  /\ Len(sent) >= 1
  /\ Len(sent) + 1 < Len(couples)

\* ------------------------------------------------------------------ C13
\* C13: no mail is handed to the transport unless a save has completed
\* (persisted is set).
C13_NoMailBeforePersisted ==
  sent # << >> => saved

\* ------------------------------------------------------------------ C14
\* C14: get_couples returns as many rows as the internal pairs, in their
\* order, with the same giver and the recipient replaced by its hash, and
\* changes neither the pairs, the participants, the flags nor the file;
\* the recipients of the internal pairs still resolve to participants.
C14_ConcealReturnsCopy ==
  [][(op' = "get_couples") =>
       /\ UNCHANGED <<built, participants, random, store_file_path, saved,
                      couples, file>>
       /\ result' = "Ok" =>
            /\ Len(returned') = Len(couples)
            /\ \A i \in 1..Len(couples) :
                 /\ returned'[i][1] = couples[i][1]
                 /\ returned'[i][2] = hash(couples[i][2], DEFAULT_COST)
                 /\ returned'[i][2] # couples[i][2]
                 /\ get_participant(participants', couples'[i][2]) # << >>]_vars

C14_Witness ==
  /\ op = "get_couples"
  /\ result = "Ok"
  /\ Len(returned) >= 2
  /\ Len(returned) = Len(couples)

\* ------------------------------------------------------------------ C15
\* C15: send_emails, succeeding or failing, changes neither the participant
\* order, the pairs, the flags nor the file; a send_emails repeated after
\* another goes through the same pairs in the same order.
C15_SendChangesNoRunState ==
  [][(op' = "send_emails") =>
       /\ UNCHANGED <<built, participants, random, store_file_path, saved,
                      couples, file>>
       /\ (op = "send_emails" /\ result' = "Ok") =>
            /\ Len(sent) <= Len(sent')
            /\ SubSeq(sent', 1, Len(sent)) = sent]_vars

C15_Witness ==
  /\ op = "send_emails"
  /\ result = "Ok"
  /\ saved
  /\ Len(sent) >= 2
  /\ Len(sent) = Len(couples)

\* ------------------------------------------------------------------ C16
\* The rows s and t are the same pairs, each as many times, in some order.
SamePairs(s, t) ==
  /\ Len(s) = Len(t)
  /\ \A x \in Givers(s) \X Recipients(s) \cup Givers(t) \X Recipients(t) :
       Cardinality({ i \in 1..Len(s) : s[i] = x })
         = Cardinality({ i \in 1..Len(t) : t[i] = x })

\* C16: the shuffle save applies to the rows only reorders them: the pairs
\* after a save that derived are the pairs before it together with the
\* derived ones, and the rows written to the file are in the order of the
\* internal rows that send_emails goes through.
C16_RandKeepsPairs ==
  /\ [][(op' \in {"run", "save"} /\ ~saved
          /\ result' \notin {"Panic", "Participants not shuffled"})
         => SamePairs(couples', couples \o derive(participants'))]_vars
  /\ [](saved => \A i \in 1..Len(file.rows) :
                   /\ i <= Len(couples)
                   /\ file.rows[i][1] = couples[i][1]
                   /\ file.rows[i][2] = hash(couples[i][2], DEFAULT_COST))

C16_Witness ==
  /\ op \in {"run", "save"}
  /\ saved
  /\ Len(couples) = Len(participants)
  /\ Len(couples) >= 3
  /\ couples # derive(participants)
  /\ Len(file.rows) = Len(couples)

\* ------------------------------------------------------------------ C17
\* C17: every recipient in the internal pairs is the name of a participant,
\* send_emails never returns "Participant is not in list", and no operation
\* on a constructed Roulette adds, removes or renames a participant.
C17_RecipientsAreParticipants ==
  /\ [](/\ Recipients(couples) \subseteq NamesOf(participants)
        /\ result # "Participant is not in list")
  /\ [][built => /\ Len(participants') = Len(participants)
                 /\ NamesOf(participants') = NamesOf(participants)]_vars

C17_Witness ==
  /\ op = "send_emails"
  /\ result = "Ok"
  /\ Len(sent) >= 3

\* ------------------------------------------------------------------ C18
\* C18: randomized and persisted never go from true back to false, and
\* persisted implies randomized and a non-empty set of pairs.
C18_FlagsOnlyForward ==
  /\ [](saved => (random /\ couples # << >>))
  /\ [][(random => random') /\ (saved => saved')]_vars

C18_Witness ==
  /\ saved
  /\ random
  /\ couples # << >>
  /\ op = "save"
====
